---- MODULE Spec2Model ----
(***************************************************************************)
(* Incremental, resumable processing engine of the YouTube -> Shorts       *)
(* automation (src/main.py, class YouTubeShortsAutomation).                *)
(*                                                                         *)
(* One top-level invocation is: __init__ (load tracking.json), then        *)
(* run_full_automation = scrape_channel, Phase 1 cloud sync, Phase 2       *)
(* get_next_video_to_process + process_video_for_shorts.  The latter calls *)
(* run_full_automation again when it finds the selected video complete.    *)
(*                                                                         *)
(* The dict self.tracking['videos'] is modelled as the sequence of its     *)
(* records in insertion order (Python dicts keep insertion order, and      *)
(* get_next_video_to_process depends on it).  Of a record only the fields  *)
(* that the control flow of main.py reads or writes are kept; title,       *)
(* views, duration, published and url never influence it.                  *)
(*                                                                         *)
(* External collaborators (scraper, origin download, cloud storage,        *)
(* ffprobe, splitter, editor, uploader) are nondeterministic outcomes.     *)
(*                                                                         *)
(* Spec follows the invocations of a channel of NumVideos videos in an     *)
(* environment where the process is not killed and writes succeed;         *)
(* SyncSpec follows one invocation on a channel larger than what Phase 1   *)
(* handles; FaultSpec adds kills and failed writes of tracking.json.       *)
(***************************************************************************)
EXTENDS Integers, Sequences, FiniteSets, TLC

\* ------------------------------------------------------------------ bounds
\* Number of videos the channel holds, and number of top-level invocations.
NumVideos == 2
MaxRuns == 2
\* Number of top-level invocations where a video that was given up is
\* followed until another video is taken.
SerialRuns == 3

\* The passes through the loop of split_video that are followed.
MaxIterations == 4
\* Longest duration (seconds) of the part count computations followed.
MaxDuration == 130
\* Number of videos of the channel whose cloud sync is followed.
SyncVideos == 6

\* ------------------------------------------------------- program constants
max_uploads_per_run == 3
max_segments_per_video == 10
segment_duration == 60
MinTail == 10
MAX_SYNC_PER_RUN == 5

Videos == 1..NumVideos
NoVideo == 0

\* cloud_url of a record: None, or the locator the cloud storage returned.
NoUrl == "none"
HfUrl == "hf"

\* The durations (whole seconds) of the channel's videos, by video id: two
\* parts (125 s, the 5 s tail is dropped), five parts (250 s, the 10 s tail
\* is kept: more parts than one run may upload), and no part at all (5 s).
Durations == <<125, 250, 5>>
duration(v) == Durations[((v - 1) % Len(Durations)) + 1]

\* The view counts the scraper reports, by video id: the record's 'views'
\* (main.py:102, 115). The listing is by date, not by views.
Views == <<10, 30, 20>>
views(v) == Views[((v - 1) % Len(Views)) + 1]

\* No publish has failed.
NoFail == <<0, 0>>

\* ----------------------------------------------------------------- helpers
Range(s) == {s[i] : i \in DOMAIN s}
Max(S) == CHOOSE x \in S : \A y \in S : y <= x
Min(S) == CHOOSE x \in S : \A y \in S : x <= y

\* Mutant of sorted: the largest part number comes first.
sorted_reverse(s) == SortSeq(s, LAMBDA a, b : a > b)

\* sorted(list) of main.py:394.
sorted(s) == SortSeq(s, LAMBDA a, b : a < b)

\* Sequences without repetition over S: what the scraper may return.
Listings(S) ==
    {s \in UNION {[1..n -> S] : n \in 0..Cardinality(S)} :
        \A i, j \in DOMAIN s : i # j => s[i] # s[j]}

\* ---------------------------------------------------------- tracking store
Ids(t) == {t[i].id : i \in DOMAIN t}
Idx(t, v) == CHOOSE i \in DOMAIN t : t[i].id = v
Rec(t, v) == t[Idx(t, v)]
SetField(t, v, f, val) == [t EXCEPT ![Idx(t, v)][f] = val]

\* _load_tracking for a file that does not exist yet.
EmptyTracking == <<>>

\* A key of a record that main.py never reads or writes (put there by
\* hand, or by another tool): absent, or some value.
NoExtra == "none"
ExtraValues == {NoExtra, "note"}

\* Mutant of load_tracking: only the keys main.py knows are read.
load_tracking_known_keys(disk) ==
    [i \in DOMAIN disk |-> [disk[i] EXCEPT !.extra = NoExtra]]

\* _load_tracking on an existing file (main.py:74-76): json.load gives the
\* whole content, every key of every record.
load_tracking(disk) == disk

\* Mutant of NewRecord: an unseen video is added as one in progress.
NewRecordInProgress(v) ==
    [id |-> v, status |-> "partial", parts_uploaded |-> <<1>>,
     total_parts |-> 0, youtube_video_ids |-> <<>>, cloud_url |-> NoUrl,
     extra |-> NoExtra]

\* The record scrape_channel creates for a video it has not seen.
NewRecord(v) ==
    [id |-> v, status |-> "pending", parts_uploaded |-> <<>>,
     total_parts |-> 0, youtube_video_ids |-> <<>>, cloud_url |-> NoUrl,
     extra |-> NoExtra]

\* Mutant of RefreshRecord: the scrape overwrites a tracked record.
RefreshRecordResets(rec) == NewRecord(rec.id)

\* scrape_channel on a video already tracked: only views and published are
\* refreshed, which the model does not keep, so the record is unchanged.
RefreshRecord(rec) == rec

\* scrape_channel: the loop over the scraped listing.
RECURSIVE ScrapeInto(_, _)
ScrapeInto(t, listing) ==
    IF listing = <<>> THEN t
    ELSE LET v == Head(listing)
             t2 == IF v \in Ids(t)
                   THEN [t EXCEPT ![Idx(t, v)] = RefreshRecord(t[Idx(t, v)])]
                   ELSE Append(t, NewRecord(v))
         IN ScrapeInto(t2, Tail(listing))

\* Mutant of FirstWithStatus: a partial record is never found.
FirstWithStatusButPartial(t, st) ==
    IF st # "partial" /\ \E i \in DOMAIN t : t[i].status = st
    THEN t[Min({i \in DOMAIN t : t[i].status = st})].id
    ELSE NoVideo

\* The first record, in store order, with the given status (NoVideo if none).
FirstWithStatus(t, st) ==
    IF \E i \in DOMAIN t : t[i].status = st
    THEN t[Min({i \in DOMAIN t : t[i].status = st})].id
    ELSE NoVideo

\* Mutant of get_next_video_to_process: a completed record is taken when
\* nothing else is left.
get_next_video_to_process_or_completed(t) ==
    IF FirstWithStatus(t, "partial") # NoVideo
    THEN FirstWithStatus(t, "partial")
    ELSE IF FirstWithStatus(t, "pending") # NoVideo
         THEN FirstWithStatus(t, "pending")
         ELSE FirstWithStatus(t, "completed")

\* get_next_video_to_process: partial (resume) before pending (new).
get_next_video_to_process(t) ==
    IF FirstWithStatus(t, "partial") # NoVideo
    THEN FirstWithStatus(t, "partial")
    ELSE FirstWithStatus(t, "pending")

\* Mutant of NextVideoCall: the call marks the record it returns.
NextVideoCallMarks(t) ==
    LET v == get_next_video_to_process(t)
    IN [video_id |-> v,
        tracking |-> IF v = NoVideo THEN t
                     ELSE SetField(t, v, "status", "selected")]

\* A call of self.get_next_video_to_process(): the video it returns and the
\* store it leaves (the method reads self.tracking and writes nothing).
NextVideoCall(t) ==
    [video_id |-> get_next_video_to_process(t), tracking |-> t]

\* TrackingManager.get_pending_videos: the pending records, highest views
\* first.
get_pending_videos(t) ==
    SortSeq(SelectSeq(t, LAMBDA r : r.status = "pending"),
            LAMBDA a, b : views(a.id) > views(b.id))

\* Phase 1: the records needing sync, in store order, cut to MAX_SYNC_PER_RUN.
RECURSIVE SelectSeq2(_, _)
SelectSeq2(t, n) ==
    IF t = <<>> \/ n = 0 THEN {}
    ELSE IF Head(t).status \in {"pending", "partial"} /\ Head(t).cloud_url = NoUrl
         THEN {Head(t).id} \cup SelectSeq2(Tail(t), n - 1)
         ELSE SelectSeq2(Tail(t), n)

\* Mutant of videos_to_sync: every record without a cloud url is taken.
videos_to_sync_any_status(t) ==
    {t[i].id : i \in {j \in DOMAIN t : t[j].cloud_url = NoUrl}}

videos_to_sync(t) == SelectSeq2(t, MAX_SYNC_PER_RUN)

\* Mutant of NextPart: resume after the number of recorded parts.
NextPartByCount(parts_already_uploaded) == Len(parts_already_uploaded) + 1

\* next_part_to_upload of process_video_for_shorts.
NextPart(parts_already_uploaded) ==
    IF parts_already_uploaded # <<>>
    THEN Max(Range(parts_already_uploaded)) + 1
    ELSE 1

\* Mutant of TotalPartsFor: a tail of exactly MinTail seconds is dropped.
TotalPartsStrictTail(total_duration, seg_len, cap) ==
    LET total_possible_parts ==
            (total_duration \div seg_len)
            + (IF total_duration % seg_len > MinTail THEN 1 ELSE 0)
    IN IF total_possible_parts < cap THEN total_possible_parts ELSE cap

\* total_parts of process_video_for_shorts (main.py:269-275) for a probed
\* duration, in whole seconds, a segment length and a cap.
TotalPartsFor(total_duration, seg_len, cap) ==
    LET total_possible_parts ==
            (total_duration \div seg_len)
            + (IF total_duration % seg_len >= MinTail THEN 1 ELSE 0)
    IN IF total_possible_parts < cap THEN total_possible_parts ELSE cap

\* ... with the configured segment_duration and max_segments_per_video.
TotalParts(total_duration) ==
    TotalPartsFor(total_duration, segment_duration, max_segments_per_video)

\* Mutant of PartsToProcess: the per-run cap is not applied.
PartsToProcessUncapped(next, total) ==
    [i \in 1..(total - next + 1) |-> next + i - 1]

\* parts_to_process: range(next, total + 1) cut after max_uploads_per_run.
PartsToProcess(next, total) ==
    LET last == IF total < next + max_uploads_per_run - 1
                THEN total ELSE next + max_uploads_per_run - 1
    IN [i \in 1..(last - next + 1) |-> next + i - 1]

\* get_video_duration: the duration ffprobe reports, or 0 when it fails.
ProbedDurations(d) == {d, 0}

\* VideoDownloader.download_video: the possible results (video_path is
\* TRUE when a path is returned, and then the file is on disk).  The cloud
\* storage behind it (download_file, upload_file, is_configured) may work or
\* not; the locator it returns for a video is always the same.
Result(path, url) == [video_path |-> path, new_cloud_url |-> url]

\* One execution of download_video: the downloader methods it calls, in
\* order, each with what it returned, and the result of download_video.
Call(method, ok) == <<method, ok>>
Execution(calls, result) == [calls |-> calls, result |-> result]

\* Mutant of download_video_executions: the origin is tried before the cloud.
download_video_origin_first(has_local, url) ==
    IF has_local
    THEN {Execution(<<>>, Result(TRUE, url))}
    ELSE {Execution(<<Call("download_from_youtube", TRUE),
                      Call("upload_to_cloud", TRUE)>>, Result(TRUE, HfUrl)),
          Execution(<<Call("download_from_youtube", FALSE),
                      Call("download_from_cloud", url # NoUrl)>>,
                    Result(url # NoUrl, url))}

\* download_video, path by path.
download_video_executions(has_local, url) ==
    IF has_local
    THEN {Execution(<<>>, Result(TRUE, url))}
    ELSE LET from_cloud ==
                 IF url # NoUrl
                 THEN <<Call("download_from_cloud", FALSE)>> ELSE <<>>
             from_youtube ==
                 Append(from_cloud, Call("download_from_youtube", TRUE))
         IN \* the cloud copy is fetched
            (IF url # NoUrl
             THEN {Execution(<<Call("download_from_cloud", TRUE)>>,
                             Result(TRUE, url))}
             ELSE {})
            \* the origin download fails (after a cloud failure, if any)
            \cup {Execution(Append(from_cloud,
                                   Call("download_from_youtube", FALSE)),
                            Result(FALSE, NoUrl))}
            \* the origin download works; the upload to the cloud works,
            \* fails, or the cloud is not configured
            \cup {Execution(Append(from_youtube, Call("upload_to_cloud", TRUE)),
                            Result(TRUE, HfUrl)),
                  Execution(Append(from_youtube, Call("upload_to_cloud", FALSE)),
                            Result(TRUE, NoUrl)),
                  Execution(from_youtube, Result(TRUE, url))}

download_video(has_local, url) ==
    {e.result : e \in download_video_executions(has_local, url)}

\* What a call of a notify_... function does: a message is sent, none is
\* (no channel configured, or the channel refused), or the call raises
\* (notify_download_failed is not defined in modules/notifier.py: its
\* import raises).
NotifyOutcomes == {"sent", "not_sent", "raised"}

\* Mutant of notify_guarded: an exception of the notifier is not caught.
notify_unguarded(outcome) == outcome # "raised"

\* try: notify_...(...) / except: pass -- whether the statements after the
\* guarded call are reached.
notify_guarded(outcome) == TRUE

\* Mutant of save_tracking: a record of the file that holds more parts than
\* the one in memory is kept.
save_tracking_merged(mem, disk) ==
    [i \in DOMAIN mem |->
        IF /\ i \in DOMAIN disk
           /\ disk[i].id = mem[i].id
           /\ Len(disk[i].parts_uploaded) > Len(mem[i].parts_uploaded)
        THEN disk[i] ELSE mem[i]]

\* _save_tracking: the file after json.dump(self.tracking) on a file opened
\* with 'w' (main.py:79-82): the copy in memory, whatever the file held.
save_tracking(mem, disk) == mem

\* Mutant of MarkCompleted: the status is left as it is.
MarkCompletedForgotten(t, v) == t

\* self.tracking['videos'][video_id]['status'] = 'completed' (main.py:287,
\* 418).
MarkCompleted(t, v) == SetField(t, v, "status", "completed")

\* The reference upload_short returns for a part of a video.
YtId(v, part_num) == <<v, part_num>>

\* YouTubeUploader.is_daily_limit_reached.
is_daily_limit_reached == FALSE

\* ------------------------------------------------------------------- state
VARIABLES
    file,                \* tracking.json on disk (its last complete content)
    corrupt,             \* tracking.json was left truncated by a failed write
    tracking,            \* self.tracking['videos'] of the running process
    localVideo,          \* videos whose downloads/<id>.mp4 exists (>= 1 MB)
    runs,                \* top-level invocations started so far
    pc,                  \* position of the running invocation
    video_id,            \* process_video_for_shorts: the selected video
    cloud_url,           \* ... its local cloud_url (main.py:231)
    total_parts,         \* ... total_parts
    parts_to_process,    \* ... parts_to_process
    part_pos,            \* ... position of the loop over parts_to_process
    segments_to_upload,  \* ... part numbers of segments_to_upload
    seg_pos,             \* ... position of the loop over segments_to_upload
    uploaded_parts,      \* ... uploaded_parts
    uploaded_ids,        \* ... uploaded_ids
    \* history, for stating the properties
    published,           \* <<video, part>> published by this invocation
    first_failed,        \* <<video, part>> of the first publish that failed
                         \* in the last batch (NoFail if none did)
    evictions,           \* delete_from_cloud calls issued per video
    depth,               \* run_full_automation calls nested in this invocation
    synced,              \* videos Phase 1 called download_video for, in
                         \* this invocation
    downloader_calls,    \* the calls of the download_video of step A
    ever_published,      \* <<video, part>> published by any invocation
    write_failed,        \* a _save_tracking of this invocation has raised
    videos,              \* scrape_channel: the list the scraper returned
    analysis,            \* a computation followed by itself (the part count,
                         \* the loop of split_video): inputs, locals, result
    other,               \* self.tracking['videos'] of a second process
    other_pc             \* position of the second process

locals ==
    <<video_id, cloud_url, total_parts, parts_to_process, part_pos,
      segments_to_upload, seg_pos, uploaded_parts, uploaded_ids>>
history ==
    <<published, first_failed, evictions, depth, synced, downloader_calls,
      ever_published, write_failed>>
second == <<other, other_pc>>
vars ==
    <<file, corrupt, tracking, localVideo, runs, pc, locals, history, videos,
      analysis, second>>

\* The locals of process_video_for_shorts before it is entered.
NoLocals ==
    /\ video_id' = NoVideo
    /\ cloud_url' = NoUrl
    /\ total_parts' = 0
    /\ parts_to_process' = <<>>
    /\ part_pos' = 1
    /\ segments_to_upload' = <<>>
    /\ seg_pos' = 1
    /\ uploaded_parts' = <<>>
    /\ uploaded_ids' = <<>>

Init ==
    /\ file = EmptyTracking
    /\ corrupt = FALSE
    /\ tracking = EmptyTracking
    /\ localVideo = {}
    /\ runs = 0
    /\ pc = "idle"
    /\ video_id = NoVideo
    /\ cloud_url = NoUrl
    /\ total_parts = 0
    /\ parts_to_process = <<>>
    /\ part_pos = 1
    /\ segments_to_upload = <<>>
    /\ seg_pos = 1
    /\ uploaded_parts = <<>>
    /\ uploaded_ids = <<>>
    /\ published = {}
    /\ first_failed = NoFail
    /\ evictions = [v \in Videos |-> 0]
    /\ depth = 0
    /\ synced = {}
    /\ downloader_calls = <<>>
    /\ ever_published = {}
    /\ write_failed = FALSE
    /\ videos = <<>>
    /\ analysis = <<>>
    /\ other = EmptyTracking
    /\ other_pc = "none"

\* main(): a new process builds YouTubeShortsAutomation, whose __init__
\* loads the tracking file, and calls run_full_automation.
Main ==
    /\ pc = "idle"
    /\ ~corrupt
    /\ tracking' = load_tracking(file)
    /\ pc' = "scrape"
    /\ published' = {}
    /\ depth' = 0
    /\ synced' = {}
    /\ downloader_calls' = <<>>
    /\ write_failed' = FALSE
    /\ UNCHANGED <<file, corrupt, localVideo, locals, first_failed, evictions,
                   ever_published>>
    /\ UNCHANGED <<videos, analysis, second>>

\* One more invocation, while fewer than n have been started.
StartRunUpTo(n) ==
    /\ runs < n
    /\ runs' = runs + 1
    /\ Main

StartRun == StartRunUpTo(MaxRuns)

\* run_full_automation, step 1: scrape_channel and _save_tracking.
Scrape ==
    /\ pc = "scrape"
    /\ \E listing \in Listings(Videos) :
           /\ videos' = listing
           /\ tracking' = ScrapeInto(tracking, listing)
    /\ file' = tracking'
    /\ corrupt' = FALSE
    /\ pc' = "sync"
    /\ UNCHANGED <<localVideo, runs, locals, history>>
    /\ UNCHANGED <<analysis, second>>

\* run_full_automation, Phase 1: for each record needing sync,
\* download_video(cloud_url=None); a new cloud url is recorded and saved and
\* the local file removed.
CloudSync ==
    /\ pc = "sync"
    /\ LET todo == videos_to_sync(tracking)
       IN \E res \in [todo -> {Result(FALSE, NoUrl), Result(TRUE, HfUrl),
                               Result(TRUE, NoUrl)}] :
              /\ \A v \in todo : res[v] \in download_video(v \in localVideo, NoUrl)
              /\ tracking' =
                     [i \in DOMAIN tracking |->
                         IF tracking[i].id \in todo
                            /\ res[tracking[i].id].new_cloud_url # NoUrl
                         THEN [tracking[i] EXCEPT !.cloud_url =
                                   res[tracking[i].id].new_cloud_url]
                         ELSE tracking[i]]
              /\ localVideo' =
                     (localVideo
                        \cup {v \in todo : res[v].video_path})
                     \ {v \in todo : res[v].new_cloud_url # NoUrl}
              \* a video still on disk is returned without any fetch
              /\ synced' = synced \cup (todo \ localVideo)
    /\ file' = tracking'
    /\ pc' = "select"
    /\ UNCHANGED <<corrupt, runs, locals, published, first_failed, evictions,
                   depth, downloader_calls, ever_published, write_failed>>
    /\ videos' = <<>>
    /\ UNCHANGED <<analysis, second>>

\* run_full_automation, Phase 2: get_next_video_to_process; nothing to do
\* ends the invocation with the all-videos-complete notification.
Select ==
    /\ pc = "select"
    /\ LET call == NextVideoCall(tracking)
           v == call.video_id
       IN /\ tracking' = call.tracking
          /\ IF v = NoVideo
             THEN /\ pc' = "idle"
                  /\ UNCHANGED locals
             ELSE /\ pc' = "fetch"
                  /\ video_id' = v
                  /\ cloud_url' = Rec(tracking, v).cloud_url
                  /\ UNCHANGED <<total_parts, parts_to_process, part_pos,
                                 segments_to_upload, seg_pos, uploaded_parts,
                                 uploaded_ids>>
    /\ UNCHANGED <<file, corrupt, localVideo, runs, history>>
    /\ UNCHANGED <<videos, analysis, second>>

\* process_video_for_shorts, A. DOWNLOAD (main.py:229-261).
Fetch ==
    /\ pc = "fetch"
    /\ IF video_id \in localVideo
       THEN /\ pc' = "analyze"
            /\ downloader_calls' = <<>>
            /\ UNCHANGED <<file, tracking, localVideo, locals>>
       ELSE \E e \in download_video_executions(FALSE, cloud_url) :
              LET r == e.result
                  t1 == IF r.new_cloud_url # NoUrl /\ r.new_cloud_url # cloud_url
                        THEN SetField(tracking, video_id, "cloud_url",
                                      r.new_cloud_url)
                        ELSE tracking
              IN /\ downloader_calls' = e.calls
                 /\ IF r.video_path
                    THEN /\ tracking' = t1
                         /\ file' = t1
                         /\ localVideo' = localVideo \cup {video_id}
                         /\ pc' = "analyze"
                         /\ UNCHANGED locals
                    ELSE \* notify_download_failed, then the status and
                         \* the save (main.py:251-259)
                         \E n \in NotifyOutcomes :
                           /\ tracking' =
                                IF notify_guarded(n)
                                THEN SetField(t1, video_id, "status",
                                              "download_failed")
                                ELSE t1
                           /\ file' = IF notify_guarded(n)
                                      THEN tracking' ELSE file
                           /\ localVideo' = localVideo
                           /\ pc' = "idle"
                           /\ NoLocals
    /\ UNCHANGED <<corrupt, runs, published, first_failed, evictions, depth,
                   synced, ever_published, write_failed>>
    /\ UNCHANGED <<videos, analysis, second>>

\* process_video_for_shorts, B. ANALYZE & SPLIT and "Check Completion"
\* (main.py:263-318): either the video is found complete and its status is
\* set, in memory, or the batch is planned.
Analyze ==
    /\ pc = "analyze"
    /\ \E total_duration \in ProbedDurations(duration(video_id)) :
         LET parts_already_uploaded == Rec(tracking, video_id).parts_uploaded
             next_part_to_upload == NextPart(parts_already_uploaded)
             total == TotalParts(total_duration)
             url == Rec(tracking, video_id).cloud_url
         IN IF next_part_to_upload > total
            THEN /\ tracking' = MarkCompleted(tracking, video_id)
                 /\ pc' = "cleanup"
                 /\ UNCHANGED <<file, localVideo, locals>>
            ELSE /\ total_parts' = total
                 /\ parts_to_process' = PartsToProcess(next_part_to_upload, total)
                 /\ part_pos' = 1
                 /\ segments_to_upload' = <<>>
                 /\ seg_pos' = 1
                 /\ uploaded_parts' = parts_already_uploaded
                 /\ uploaded_ids' = Rec(tracking, video_id).youtube_video_ids
                 /\ pc' = "prepare"
                 /\ UNCHANGED <<file, tracking, localVideo, video_id,
                                cloud_url>>
    /\ first_failed' = NoFail
    /\ downloader_calls' = <<>>
    /\ UNCHANGED <<corrupt, runs, published, evictions, depth, synced,
                   ever_published, write_failed>>
    /\ UNCHANGED <<videos, analysis, second>>

\* process_video_for_shorts, "Check Completion", the rest (main.py:290-309):
\* the local file is removed, the cloud copy of the record's cloud_url is
\* deleted, the tracking is saved and run_full_automation is called again.
Cleanup ==
    /\ pc = "cleanup"
    /\ LET url == Rec(tracking, video_id).cloud_url
       IN /\ tracking' = SetField(tracking, video_id, "cloud_url", NoUrl)
          /\ evictions' =
                 IF url # NoUrl
                 THEN [evictions EXCEPT ![video_id] = @ + 1]
                 ELSE evictions
    /\ file' = tracking'
    /\ corrupt' = FALSE
    /\ localVideo' = localVideo \ {video_id}
    /\ pc' = "scrape"
    /\ depth' = depth + 1
    /\ NoLocals
    /\ UNCHANGED <<runs, published, first_failed, synced, downloader_calls,
                   ever_published, write_failed>>
    /\ UNCHANGED <<videos, analysis, second>>

\* modules.splitter.split_video as main.py:336 calls it: a path, or nothing.
\* (No function of that name and signature is among the sources; its two
\* results are those main.py:337 tells apart.)
SplitOutcomes == {"ok", "failed"}

\* VideoEditor.add_overlays: the output path, or None.
EditOutcomes == {"ok", "failed"}

\* Mutant of PrepareStep: a part that cannot be split or edited ends the
\* loop over the batch.
PrepareStepStopsOnFailure(segments, part_num, result_path, edited_result) ==
    IF result_path = "ok" /\ edited_result = "ok"
    THEN [segments |-> Append(segments, part_num), goes_on |-> TRUE]
    ELSE [segments |-> segments, goes_on |-> FALSE]

\* One iteration of the loop over parts_to_process (main.py:323-353): the
\* segments_to_upload it leaves, and whether the loop goes on to the next
\* part ('continue' after a failed split, a log line after a failed edit).
PrepareStep(segments, part_num, result_path, edited_result) ==
    IF result_path = "ok" /\ edited_result = "ok"
    THEN [segments |-> Append(segments, part_num), goes_on |-> TRUE]
    ELSE [segments |-> segments, goes_on |-> TRUE]

\* process_video_for_shorts, C. PROCESS SEGMENTS, one iteration
\* (main.py:323-353): a part whose split or edit fails is left out of
\* segments_to_upload and the loop goes on.
PreparePart ==
    /\ pc = "prepare"
    /\ part_pos <= Len(parts_to_process)
    /\ \E result_path \in SplitOutcomes, edited_result \in EditOutcomes :
          LET step == PrepareStep(segments_to_upload,
                                  parts_to_process[part_pos],
                                  result_path, edited_result)
              last == part_pos = Len(parts_to_process) \/ ~step.goes_on
          IN /\ segments_to_upload' = step.segments
             /\ part_pos' = IF step.goes_on THEN part_pos + 1
                            ELSE Len(parts_to_process) + 1
             /\ pc' = IF last THEN "upload" ELSE "prepare"
    /\ UNCHANGED <<file, corrupt, tracking, localVideo, runs, video_id,
                   cloud_url, total_parts, parts_to_process, seg_pos,
                   uploaded_parts, uploaded_ids, history>>
    /\ UNCHANGED <<videos, analysis, second>>

\* The edited segment files of this batch on disk (processed/<id>_part<n>
\* _edited.mp4): add_overlays has written them (main.py:343-347) and the
\* upload loop has not yet come to remove them (main.py:412-414).
edited_files ==
    {<<video_id, segments_to_upload[i]>> :
        i \in seg_pos..Len(segments_to_upload)}

\* What upload_short gives main.py: an id, None, or an exception.
UploadOutcomes == {"id", "none", "raised"}

\* Mutant of RecordUpload: the id of the upload is not recorded.
RecordUploadWithoutId(t, v, parts, ids, part_num) ==
    LET t1 == SetField(t, v, "parts_uploaded", sorted(parts))
    IN IF part_num = 1 THEN SetField(t1, v, "status", "partial") ELSE t1

\* The record after a successful upload of part_num (main.py:389-400).
RecordUpload(t, v, parts, ids, part_num) ==
    LET t1 == SetField(t, v, "parts_uploaded", sorted(parts))
        t2 == SetField(t1, v, "youtube_video_ids", ids)
    IN IF part_num = 1 THEN SetField(t2, v, "status", "partial") ELSE t2

\* process_video_for_shorts, D. UPLOAD, one iteration (main.py:362-414).
UploadPart ==
    /\ pc = "upload"
    /\ seg_pos <= Len(segments_to_upload)
    /\ ~is_daily_limit_reached
    /\ LET part_num == segments_to_upload[seg_pos]
       IN \E yt \in UploadOutcomes :
            IF yt = "id"
            THEN /\ uploaded_parts' = Append(uploaded_parts, part_num)
                 /\ uploaded_ids' = Append(uploaded_ids, YtId(video_id, part_num))
                 /\ tracking' = RecordUpload(tracking, video_id, uploaded_parts',
                                             uploaded_ids', part_num)
                 /\ file' = save_tracking(tracking', file)
                 /\ corrupt' = FALSE
                 /\ published' = published \cup {<<video_id, part_num>>}
                 /\ ever_published' =
                        ever_published \cup {<<video_id, part_num>>}
                 /\ first_failed' = first_failed
            ELSE /\ first_failed' = IF first_failed = NoFail
                                    THEN <<video_id, part_num>>
                                    ELSE first_failed
                 /\ UNCHANGED <<uploaded_parts, uploaded_ids, tracking, file,
                                corrupt, published, ever_published>>
    /\ seg_pos' = seg_pos + 1
    /\ UNCHANGED <<localVideo, runs, pc, video_id, cloud_url,
                   total_parts, parts_to_process, part_pos,
                   segments_to_upload, evictions, depth, synced,
                   downloader_calls, write_failed>>
    /\ UNCHANGED <<videos, analysis, second>>

\* process_video_for_shorts, "Check completion after uploads"
\* (main.py:416-419): the status is set, in memory, when the video is
\* complete; the invocation ends here when it is not.
Finish ==
    /\ pc = "upload"
    /\ seg_pos > Len(segments_to_upload) \/ is_daily_limit_reached
    /\ IF Len(uploaded_parts) >= total_parts
       THEN /\ tracking' = MarkCompleted(tracking, video_id)
            /\ pc' = "final_cleanup"
            /\ UNCHANGED locals
       ELSE /\ pc' = "idle"
            /\ NoLocals
            /\ UNCHANGED tracking
    /\ UNCHANGED <<file, corrupt, localVideo, runs, history>>
    /\ UNCHANGED <<videos, analysis, second>>

\* "Check completion after uploads", the rest (main.py:424-433): the local
\* file is removed, the cloud copy is deleted when the cloud_url read at
\* main.py:231 was set, and the tracking is saved; the invocation ends.
FinalCleanup ==
    /\ pc = "final_cleanup"
    /\ tracking' = IF cloud_url # NoUrl
                   THEN SetField(tracking, video_id, "cloud_url", NoUrl)
                   ELSE tracking
    /\ evictions' = IF cloud_url # NoUrl
                    THEN [evictions EXCEPT ![video_id] = @ + 1]
                    ELSE evictions
    /\ file' = tracking'
    /\ corrupt' = FALSE
    /\ localVideo' = localVideo \ {video_id}
    /\ pc' = "idle"
    /\ NoLocals
    /\ UNCHANGED <<runs, published, first_failed, depth, synced,
                   downloader_calls, ever_published, write_failed>>
    /\ UNCHANGED <<videos, analysis, second>>

Next ==
    \/ StartRun
    \/ Scrape
    \/ CloudSync
    \/ Select
    \/ Fetch
    \/ Analyze
    \/ Cleanup
    \/ PreparePart
    \/ UploadPart
    \/ Finish
    \/ FinalCleanup

Spec == Init /\ [][Next]_vars

\* The first invocation on a channel of n videos, at the point where its
\* scrape_channel has put them all in the store and saved it.
AfterFirstScrape(n) ==
    /\ file = [v \in 1..n |-> NewRecord(v)]
    /\ corrupt = FALSE
    /\ tracking = file
    /\ localVideo = {}
    /\ runs = 1
    /\ pc = "sync"
    /\ video_id = NoVideo
    /\ cloud_url = NoUrl
    /\ total_parts = 0
    /\ parts_to_process = <<>>
    /\ part_pos = 1
    /\ segments_to_upload = <<>>
    /\ seg_pos = 1
    /\ uploaded_parts = <<>>
    /\ uploaded_ids = <<>>
    /\ published = {}
    /\ first_failed = NoFail
    /\ evictions = [v \in 1..n |-> 0]
    /\ depth = 0
    /\ synced = {}
    /\ downloader_calls = <<>>
    /\ ever_published = {}
    /\ write_failed = FALSE
    /\ videos = <<>>
    /\ analysis = <<>>
    /\ other = EmptyTracking
    /\ other_pc = "none"

\* One invocation on a channel of SyncVideos videos, more than one Phase 1
\* handles; no other invocation follows.
SyncInit == AfterFirstScrape(SyncVideos)

SyncNext ==
    \/ Scrape
    \/ CloudSync
    \/ Select
    \/ Fetch
    \/ Analyze
    \/ Cleanup
    \/ PreparePart
    \/ UploadPart
    \/ Finish
    \/ FinalCleanup

SyncSpec == SyncInit /\ [][SyncNext]_vars

\* --------------------------------- invocations on a machine that is renewed
\* Between two invocations the downloads directory is lost (the next
\* invocation runs on a fresh machine): the case main.py:233 tests for and
\* the cloud copy is kept for.
LocalFilesLost ==
    /\ pc = "idle"
    /\ localVideo # {}
    /\ localVideo' = {}
    /\ UNCHANGED <<file, corrupt, tracking, runs, pc, locals, history, videos,
                   analysis, second>>

StartRunSerial == StartRunUpTo(SerialRuns)

SerialNext ==
    \/ StartRunSerial
    \/ LocalFilesLost
    \/ Scrape
    \/ CloudSync
    \/ Select
    \/ Fetch
    \/ Analyze
    \/ Cleanup
    \/ PreparePart
    \/ UploadPart
    \/ Finish
    \/ FinalCleanup

SerialSpec == Init /\ [][SerialNext]_vars

\* ---------------------------------------------------- part count by itself
\* The inputs of the part count computation: durations up to MaxDuration
\* and a long one, segment lengths and caps of config.json.
PlanInputs ==
    [total_duration : (0..MaxDuration) \cup {1200},
     segment_duration : {1, 20, 60},
     max_segments : {0, 1, 2, 10},
     planned : {FALSE},
     total_parts : {0},
     bounds : {<<>>}]

PartsInit ==
    /\ analysis \in PlanInputs
    /\ file = EmptyTracking
    /\ corrupt = FALSE
    /\ tracking = EmptyTracking
    /\ localVideo = {}
    /\ runs = 0
    /\ pc = "idle"
    /\ video_id = NoVideo
    /\ cloud_url = NoUrl
    /\ total_parts = 0
    /\ parts_to_process = <<>>
    /\ part_pos = 1
    /\ segments_to_upload = <<>>
    /\ seg_pos = 1
    /\ uploaded_parts = <<>>
    /\ uploaded_ids = <<>>
    /\ published = {}
    /\ first_failed = NoFail
    /\ evictions = [v \in Videos |-> 0]
    /\ depth = 0
    /\ synced = {}
    /\ downloader_calls = <<>>
    /\ ever_published = {}
    /\ write_failed = FALSE
    /\ videos = <<>>
    /\ other = EmptyTracking
    /\ other_pc = "none"

\* Mutant of segment_bounds: the end is not cut at the end of the video.
segment_bounds_unclamped(part_num, seg_len, total_duration) ==
    LET start_time == (part_num - 1) * seg_len
    IN [start_time |-> start_time, end_time |-> start_time + seg_len]

\* start_time and end_time of a part (main.py:324-325).
segment_bounds(part_num, seg_len, total_duration) ==
    LET start_time == (part_num - 1) * seg_len
    IN [start_time |-> start_time,
        end_time |-> Min({start_time + seg_len, total_duration})]

\* main.py:269-275 on the inputs at hand, and main.py:324-325 for each of
\* the parts planned.
PlanParts ==
    /\ ~analysis.planned
    /\ LET total == TotalPartsFor(analysis.total_duration,
                                  analysis.segment_duration,
                                  analysis.max_segments)
       IN analysis' =
           [analysis EXCEPT
               !.planned = TRUE,
               !.total_parts = total,
               !.bounds = [part_num \in 1..total |->
                              segment_bounds(part_num,
                                             analysis.segment_duration,
                                             analysis.total_duration)]]
    /\ UNCHANGED <<file, corrupt, tracking, localVideo, runs, pc, locals,
                   history, videos, second>>

PartsNext == PlanParts

PartsSpec == PartsInit /\ [][PartsNext]_vars

\* ------------------------------------------ a file that was edited by hand
\* The tracking file before an invocation: the channel's videos are tracked
\* and someone has added a key of their own to some of the records.
EditedStores ==
    [1..NumVideos -> UNION {{[NewRecord(v) EXCEPT !.extra = x] :
                                x \in ExtraValues} : v \in Videos}]

EditInit ==
    /\ file \in {t \in EditedStores : \A i \in DOMAIN t : t[i].id = i}
    /\ corrupt = FALSE
    /\ tracking = EmptyTracking
    /\ localVideo = {}
    /\ runs = 0
    /\ pc = "idle"
    /\ video_id = NoVideo
    /\ cloud_url = NoUrl
    /\ total_parts = 0
    /\ parts_to_process = <<>>
    /\ part_pos = 1
    /\ segments_to_upload = <<>>
    /\ seg_pos = 1
    /\ uploaded_parts = <<>>
    /\ uploaded_ids = <<>>
    /\ published = {}
    /\ first_failed = NoFail
    /\ evictions = [v \in Videos |-> 0]
    /\ depth = 0
    /\ synced = {}
    /\ downloader_calls = <<>>
    /\ ever_published = {}
    /\ write_failed = FALSE
    /\ videos = <<>>
    /\ analysis = <<>>
    /\ other = EmptyTracking
    /\ other_pc = "none"

\* The invocation that follows the edit.
StartRunFirst == runs = 0 /\ StartRunUpTo(MaxRuns)

EditNext ==
    \/ StartRunFirst
    \/ SyncNext

EditSpec == EditInit /\ [][EditNext]_vars

\* ------------------------------- invocations without end, nothing failing
\* An invocation is started whenever the last one has ended; the number of
\* invocations is not counted.
StartRunAgain == Main /\ UNCHANGED runs

\* Phase 1 in which every origin fetch and every upload to the cloud works.
CloudSyncOk ==
    /\ CloudSync
    /\ \A v \in videos_to_sync(tracking) \ localVideo :
           Rec(tracking', v).cloud_url # NoUrl

\* Step A in which every call of the downloader works.
FetchOk ==
    /\ Fetch
    /\ pc' = "analyze"
    /\ \A i \in DOMAIN downloader_calls' : downloader_calls'[i][2]

\* Step B in which ffprobe gives the duration of the video.
AnalyzeOk ==
    /\ Analyze
    /\ LET total == TotalParts(duration(video_id))
           next == NextPart(Rec(tracking, video_id).parts_uploaded)
       IN IF next > total THEN pc' = "cleanup"
          ELSE pc' = "prepare" /\ total_parts' = total

\* An iteration of step C in which the split and the edit work.
PreparePartOk ==
    /\ PreparePart
    /\ segments_to_upload' # segments_to_upload

\* An iteration of step D in which upload_short returns an id.
UploadPartOk ==
    /\ UploadPart
    /\ published' # published

LiveNext ==
    \/ StartRunAgain
    \/ Scrape
    \/ CloudSyncOk
    \/ Select
    \/ FetchOk
    \/ AnalyzeOk
    \/ Cleanup
    \/ PreparePartOk
    \/ UploadPartOk
    \/ Finish
    \/ FinalCleanup

\* The record of video 1 as a run killed after its last save and before the
\* completion check leaves it: every part recorded, status partial.
AllPartsRecorded(v) ==
    [NewRecord(v) EXCEPT
        !.status = "partial",
        !.parts_uploaded = [i \in 1..TotalParts(duration(v)) |-> i],
        !.youtube_video_ids =
            [i \in 1..TotalParts(duration(v)) |-> YtId(v, i)]]

\* No invocation is running; the store is empty, or holds the record a
\* killed run has left.
LiveInit ==
    /\ \/ /\ file = EmptyTracking
          /\ localVideo = {}
          /\ ever_published = {}
       \/ /\ file = <<AllPartsRecorded(1)>>
          /\ localVideo = {1}
          /\ ever_published = {<<1, i>> : i \in 1..TotalParts(duration(1))}
    /\ corrupt = FALSE
    /\ tracking = EmptyTracking
    /\ runs = 0
    /\ pc = "idle"
    /\ video_id = NoVideo
    /\ cloud_url = NoUrl
    /\ total_parts = 0
    /\ parts_to_process = <<>>
    /\ part_pos = 1
    /\ segments_to_upload = <<>>
    /\ seg_pos = 1
    /\ uploaded_parts = <<>>
    /\ uploaded_ids = <<>>
    /\ published = {}
    /\ first_failed = NoFail
    /\ evictions = [v \in Videos |-> 0]
    /\ depth = 0
    /\ synced = {}
    /\ downloader_calls = <<>>
    /\ write_failed = FALSE
    /\ videos = <<>>
    /\ analysis = <<>>
    /\ other = EmptyTracking
    /\ other_pc = "none"

\* Every step that can be taken is taken in the end: a started invocation
\* runs on, and a new one is started after it.
LiveSpec == LiveInit /\ [][LiveNext]_vars /\ WF_vars(LiveNext)

\* ------------------------------------------- one invocation, to its end
\* An invocation under way, whose steps are taken as long as there is one
\* to take (every call it makes returns).
RunInit == AfterFirstScrape(NumVideos)

RunSpec == RunInit /\ [][SyncNext]_vars /\ WF_vars(SyncNext)

\* -------------------------------------------- VideoSplitter.split_video
\* What the ffmpeg call of an iteration gives: a segment file, a non-zero
\* return code, return code 0 without a usable file, or an exception of
\* subprocess.run.
FfmpegOutcomes == {"written", "nonzero", "no_file", "raised"}

\* split_video entered on a video whose duration ffprobe has read
\* (modules/splitter.py:41-54); iterations counts the passes through the
\* loop body.
SplitInputs ==
    [total_duration : 1..MaxDuration,
     segment_duration : {20, 60},
     start_time : {0},
     segment_num : {1},
     segments : {0},
     iterations : {0},
     at : {"while"}]

SplitInit ==
    /\ analysis \in SplitInputs
    /\ file = EmptyTracking
    /\ corrupt = FALSE
    /\ tracking = EmptyTracking
    /\ localVideo = {}
    /\ runs = 0
    /\ pc = "idle"
    /\ video_id = NoVideo
    /\ cloud_url = NoUrl
    /\ total_parts = 0
    /\ parts_to_process = <<>>
    /\ part_pos = 1
    /\ segments_to_upload = <<>>
    /\ seg_pos = 1
    /\ uploaded_parts = <<>>
    /\ uploaded_ids = <<>>
    /\ published = {}
    /\ first_failed = NoFail
    /\ evictions = [v \in Videos |-> 0]
    /\ depth = 0
    /\ synced = {}
    /\ downloader_calls = <<>>
    /\ ever_published = {}
    /\ write_failed = FALSE
    /\ videos = <<>>
    /\ other = EmptyTracking
    /\ other_pc = "none"

\* The loop is left: its condition is false, or the rest is shorter than
\* MinTail seconds (modules/splitter.py:56-63).
SplitLeave ==
    /\ analysis.at = "while"
    /\ LET start_time == analysis.start_time
           end_time == Min({start_time + analysis.segment_duration,
                            analysis.total_duration})
       IN \/ ~(start_time < analysis.total_duration)
          \/ end_time - start_time < MinTail
    /\ analysis' = [analysis EXCEPT !.at = "return"]
    /\ UNCHANGED <<file, corrupt, tracking, localVideo, runs, pc, locals,
                   history, videos, second>>

\* One pass through the loop body (modules/splitter.py:56-101): ffmpeg is
\* run for the segment; a non-zero return code goes back to the loop
\* condition with 'continue', an exception leaves the function, and
\* otherwise start_time and segment_num advance.
SplitIteration ==
    /\ analysis.at = "while"
    /\ analysis.iterations < MaxIterations
    /\ LET start_time == analysis.start_time
           end_time == Min({start_time + analysis.segment_duration,
                            analysis.total_duration})
       IN /\ start_time < analysis.total_duration
          /\ end_time - start_time >= MinTail
          /\ \E result \in FfmpegOutcomes :
                analysis' =
                  IF result = "raised"
                  THEN [analysis EXCEPT !.iterations = @ + 1,
                                        !.at = "return"]
                  ELSE IF result = "nonzero"
                  THEN [analysis EXCEPT !.iterations = @ + 1]
                  ELSE [analysis EXCEPT
                          !.iterations = @ + 1,
                          !.segments = IF result = "written"
                                       THEN @ + 1 ELSE @,
                          !.start_time = end_time,
                          !.segment_num = @ + 1]
    /\ UNCHANGED <<file, corrupt, tracking, localVideo, runs, pc, locals,
                   history, videos, second>>

SplitNext ==
    \/ SplitLeave
    \/ SplitIteration

SplitSpec == SplitInit /\ [][SplitNext]_vars

\* ------------------------------------------------- kills and failed writes
\* The process is killed between two steps: its memory is lost, the disk
\* stays as it is.  (tracking is left as the next process will load it.)
Kill ==
    /\ pc # "idle"
    /\ pc' = "idle"
    /\ tracking' = file
    /\ NoLocals
    /\ UNCHANGED <<file, corrupt, localVideo, runs, history>>
    /\ videos' = <<>>
    /\ UNCHANGED <<analysis, second>>

\* The process is killed inside the upload loop, after upload_short has
\* returned an id (main.py:380) and before _save_tracking (main.py:400).
KillDuringUpload ==
    /\ pc = "upload"
    /\ seg_pos <= Len(segments_to_upload)
    /\ ~is_daily_limit_reached
    /\ LET part_num == segments_to_upload[seg_pos]
       IN /\ published' = published \cup {<<video_id, part_num>>}
          /\ ever_published' = ever_published \cup {<<video_id, part_num>>}
    /\ pc' = "idle"
    /\ tracking' = file
    /\ NoLocals
    /\ UNCHANGED <<file, corrupt, localVideo, runs, first_failed, evictions,
                   depth, synced, downloader_calls, write_failed>>
    /\ UNCHANGED <<videos, analysis, second>>

\* What a _save_tracking that raises leaves on disk: the old file when
\* open() failed, a truncated one when json.dump failed.
WriteFailures == {"unchanged", "truncated"}

\* scrape_channel whose _save_tracking raises (main.py:118): nothing
\* catches the exception and the process ends.
ScrapeWriteFails ==
    /\ pc = "scrape"
    /\ \E w \in WriteFailures : corrupt' = (corrupt \/ w = "truncated")
    /\ write_failed' = TRUE
    /\ pc' = "idle"
    /\ tracking' = file
    /\ NoLocals
    /\ UNCHANGED <<file, localVideo, runs, published, first_failed,
                   evictions, depth, synced, downloader_calls,
                   ever_published>>
    /\ UNCHANGED <<videos, analysis, second>>

\* One iteration of the upload loop whose upload succeeds and whose
\* _save_tracking raises (main.py:378-414): the except clause of
\* main.py:409 logs the exception and the loop goes on.
UploadPartWriteFails ==
    /\ pc = "upload"
    /\ seg_pos <= Len(segments_to_upload)
    /\ ~is_daily_limit_reached
    /\ LET part_num == segments_to_upload[seg_pos]
       IN /\ uploaded_parts' = Append(uploaded_parts, part_num)
          /\ uploaded_ids' = Append(uploaded_ids, YtId(video_id, part_num))
          /\ tracking' = RecordUpload(tracking, video_id, uploaded_parts',
                                      uploaded_ids', part_num)
          /\ published' = published \cup {<<video_id, part_num>>}
          /\ ever_published' = ever_published \cup {<<video_id, part_num>>}
    /\ \E w \in WriteFailures : corrupt' = (corrupt \/ w = "truncated")
    /\ write_failed' = TRUE
    /\ seg_pos' = seg_pos + 1
    /\ UNCHANGED <<file, localVideo, runs, pc, video_id, cloud_url,
                   total_parts, parts_to_process, part_pos,
                   segments_to_upload, first_failed, evictions, depth,
                   synced, downloader_calls>>
    /\ UNCHANGED <<videos, analysis, second>>

\* main() on a tracking file that cannot be parsed: json.load raises in
\* _load_tracking (main.py:74-76), __init__ fails and the process ends.
LoadFails ==
    /\ pc = "idle"
    /\ runs < MaxRuns
    /\ corrupt
    /\ runs' = runs + 1
    /\ UNCHANGED <<file, corrupt, tracking, localVideo, pc, locals, history>>
    /\ UNCHANGED <<videos, analysis, second>>

FaultNext ==
    \/ Next
    \/ Kill
    \/ KillDuringUpload
    \/ ScrapeWriteFails
    \/ UploadPartWriteFails
    \/ LoadFails

\* Kills and failed writes are followed on a channel whose videos are all
\* tracked, from the first invocation on.
FaultInit == AfterFirstScrape(NumVideos)

FaultSpec == FaultInit /\ [][FaultNext]_vars

\* ------------------------------------------------- two invocations at once
\* A second process started while the first invocation is under way (two
\* scheduled runs that overlap): it loads the file as it is then.
OtherStart ==
    /\ other_pc = "none"
    /\ pc # "idle"
    /\ ~corrupt
    /\ other' = load_tracking(file)
    /\ other_pc' = "scrape"
    /\ UNCHANGED <<file, corrupt, tracking, localVideo, runs, pc, locals,
                   history, videos, analysis>>

\* The second process: scrape_channel and its save.
OtherScrape ==
    /\ other_pc = "scrape"
    /\ \E listing \in Listings(Videos) :
           other' = ScrapeInto(other, listing)
    /\ file' = save_tracking(other', file)
    /\ other_pc' = "upload"
    /\ UNCHANGED <<corrupt, tracking, localVideo, runs, pc, locals, history,
                   videos, analysis>>

\* The second process: it publishes the next part of the video it selects
\* from its own copy, records it and saves (main.py:389-400), or finds
\* nothing to publish; then it ends.
OtherUploadPart ==
    /\ other_pc = "upload"
    /\ other_pc' = "done"
    /\ LET v == get_next_video_to_process(other)
           parts == IF v = NoVideo THEN <<>> ELSE Rec(other, v).parts_uploaded
           ids == IF v = NoVideo THEN <<>> ELSE Rec(other, v).youtube_video_ids
           part_num == NextPart(parts)
       IN IF v # NoVideo /\ part_num <= TotalParts(duration(v))
          THEN /\ other' = RecordUpload(other, v, Append(parts, part_num),
                                        Append(ids, YtId(v, part_num)),
                                        part_num)
               /\ file' = save_tracking(other', file)
               /\ ever_published' = ever_published \cup {<<v, part_num>>}
          ELSE UNCHANGED <<other, file, ever_published>>
    /\ UNCHANGED <<corrupt, tracking, localVideo, runs, pc, locals, videos,
                   analysis, published, first_failed, evictions, depth,
                   synced, downloader_calls, write_failed>>

\* The first invocation goes on from the end of its scrape, the second one
\* runs beside it; no third one follows.
RaceNext ==
    \/ SyncNext
    \/ OtherStart
    \/ OtherScrape
    \/ OtherUploadPart

RaceInit == AfterFirstScrape(NumVideos)

RaceSpec == RaceInit /\ [][RaceNext]_vars

\* ------------------------------------------------------------- properties
StrictlyIncreasing(s) == \A i, j \in DOMAIN s : i < j => s[i] < s[j]
MaxOrZero(s) == IF s = <<>> THEN 0 ELSE Max(Range(s))
PlannedParts(v) == TotalParts(duration(v))
Upto(n) == [i \in 1..n |-> i]

\* C1: the batch a run plans for the selected record is exactly the
\* consecutive part numbers from max(parts_uploaded)+1 (1 when empty) up to
\* total_parts, at most max_uploads_per_run of them, and every part the run
\* goes on to edit or upload is one of the batch, above max(parts_uploaded).
C1_BatchIsNextConsecutiveParts ==
    /\ pc = "prepare" =>
         LET m == MaxOrZero(Rec(tracking, video_id).parts_uploaded)
             n == IF total_parts - m < max_uploads_per_run
                  THEN total_parts - m ELSE max_uploads_per_run
         IN /\ n >= 1
            /\ Len(parts_to_process) = n
            /\ \A i \in 1..n : parts_to_process[i] = m + i
    /\ pc \in {"prepare", "upload"} =>
         /\ Range(segments_to_upload) \subseteq Range(parts_to_process)
         /\ \A p \in published : p[2] \in Range(parts_to_process)

\* C1 witness: a resumed video (parts already recorded, one of them skipped)
\* whose batch is cut by max_uploads_per_run before total_parts.
C1_Witness ==
    /\ pc = "prepare"
    /\ Len(Rec(tracking, video_id).parts_uploaded) = 1
    /\ parts_to_process[1] = 3
    /\ Len(parts_to_process) = max_uploads_per_run

\* C2: between runs, a record that holds as many parts as its video has is
\* completed, and a completed record whose last part is recorded holds as
\* many parts as its video has.  (The claim cut down to the videos with at
\* least one part and to completions that did not rest on a failed probe.)
C2_CompletedIffAllPartsRecorded ==
    pc = "idle" =>
        \A i \in DOMAIN file :
            LET r == file[i]
                n == PlannedParts(r.id)
            IN n >= 1 =>
                 /\ Len(r.parts_uploaded) = n => r.status = "completed"
                 /\ (r.status = "completed" /\ MaxOrZero(r.parts_uploaded) = n)
                        => Len(r.parts_uploaded) = n

\* C3: every record's parts_uploaded is strictly increasing (so without
\* duplicates) and no step removes a record or a recorded part number, on
\* disk and in memory, whatever publish failed.
GrowsOnly(old, new) ==
    /\ \A j \in DOMAIN new : StrictlyIncreasing(new[j].parts_uploaded)
    /\ \A i \in DOMAIN old :
          \E j \in DOMAIN new :
              /\ new[j].id = old[i].id
              /\ Range(old[i].parts_uploaded) \subseteq Range(new[j].parts_uploaded)
C3_PartsOnlyGrow ==
    [][GrowsOnly(file, file') /\ GrowsOnly(tracking, tracking')]_vars

\* C3 witness: after a scrape of a later run, a record holds a part of an
\* earlier run and a part of this one, and a publish of its video failed.
C3_Witness ==
    /\ runs >= 2
    /\ pc = "upload"
    /\ first_failed # NoFail
    /\ \E p \in published : p[1] = video_id
    /\ \E k \in Range(Rec(file, video_id).parts_uploaded) :
           <<video_id, k>> \notin published

\* C4: when a run plans a batch for a video whose publish of part k failed
\* in the batch before, the batch does not start beyond k: k is retried, not
\* skipped.  (The claim has the batch start at k exactly.)
C4_FailedPartRetried ==
    [][(pc = "analyze" /\ pc' = "prepare" /\ first_failed[1] = video_id)
          => parts_to_process'[1] <= first_failed[2]]_vars

\* C5: within a run, once a publish has failed no further part is published.
C5_NoPublishAfterFailure ==
    [][(pc = "upload" /\ first_failed # NoFail) => published' \subseteq published]_vars

\* C6: when the only records left to process are blocked ones
\* (download_failed, parts outstanding), the selection picks one of them.
Outstanding(r) == Len(r.parts_uploaded) < PlannedParts(r.id)
C6_BlockedSelectedAgain ==
    [][(/\ pc = "select"
        /\ \E i \in DOMAIN tracking :
              tracking[i].status = "download_failed" /\ Outstanding(tracking[i])
        /\ \A i \in DOMAIN tracking :
              tracking[i].status \notin {"partial", "pending"})
          => (/\ pc' = "fetch"
              /\ Rec(tracking, video_id').status = "download_failed")]_vars

\* C7: when some record is partial or download_failed with parts
\* outstanding, the selection never returns a pending record.
C7_ResumeBeforeNew ==
    [][(/\ pc = "select"
        /\ \E i \in DOMAIN tracking :
              /\ tracking[i].status \in {"partial", "download_failed"}
              /\ Outstanding(tracking[i]))
          => ~(pc' = "fetch" /\ Rec(tracking, video_id').status = "pending")]_vars

\* C8: between runs, a record whose parts_uploaded covers 1..total_parts is
\* completed, and if it ever had a cloud locator, delete_from_cloud has been
\* issued for it exactly once.
C8_CompletionEvictsOnce ==
    pc = "idle" =>
        \A i \in DOMAIN file :
            LET r == file[i]
            IN (PlannedParts(r.id) >= 1
                /\ r.parts_uploaded = Upto(PlannedParts(r.id)))
               => /\ r.status = "completed"
                  /\ (r.cloud_url # NoUrl \/ evictions[r.id] > 0)
                         => evictions[r.id] = 1

\* C9: a successful publish of part k that leaves fewer than total_parts
\* parts recorded persists the previous parts plus k with status partial.
C9_PublishedRecordIsPartial ==
    [][(pc = "upload" /\ published' # published
        /\ Len(Rec(file', video_id).parts_uploaded) < total_parts)
          => (/\ Range(Rec(file', video_id).parts_uploaded)
                   = Range(Rec(file, video_id).parts_uploaded)
                     \cup {p[2] : p \in published' \ published}
              /\ Rec(file', video_id).status = "partial")]_vars

C11_RecursionDepthAtMostOne == depth <= 1

\* C12: in one top-level invocation, Phase 1 calls download_video (origin
\* fetch and upload to the cloud) for at most MAX_SYNC_PER_RUN records,
\* nested run_full_automation calls included.
C12_SyncAtMostFivePerRun == Cardinality(synced) <= MAX_SYNC_PER_RUN

\* C13: in the processing phase, a selected record with no cloud_url and no
\* local copy stops the run: it is marked download_failed and no file is
\* fetched for it (no downloader call is made, no local copy appears).
C13_NoOriginFetchWhenProcessing ==
    [][(pc = "fetch" /\ cloud_url = NoUrl /\ video_id \notin localVideo)
          => (/\ pc' = "idle"
              /\ Rec(tracking', video_id).status = "download_failed"
              /\ downloader_calls' = <<>>
              /\ localVideo' = localVideo)]_vars

\* C14: when download_video is called for a record with a cloud_url and no
\* local file, its first call is download_from_cloud, and
\* download_from_youtube is called only after a download_from_cloud that
\* returned False.
C14_CloudBeforeOrigin ==
    [][(pc = "fetch" /\ cloud_url # NoUrl /\ video_id \notin localVideo)
          => (/\ downloader_calls' # <<>>
              /\ downloader_calls'[1][1] = "download_from_cloud"
              /\ \A i \in DOMAIN downloader_calls' :
                    downloader_calls'[i][1] = "download_from_youtube"
                       => \E j \in 1..(i - 1) :
                             downloader_calls'[j]
                                = Call("download_from_cloud", FALSE))]_vars

\* C14 witness: the cloud fetch of a record with a cloud_url has failed and
\* the origin download after it has put the file on disk.
C14_Witness ==
    /\ pc = "analyze"
    /\ Len(downloader_calls) >= 2
    /\ downloader_calls[1] = Call("download_from_cloud", FALSE)
    /\ downloader_calls[2] = Call("download_from_youtube", TRUE)
    /\ video_id \in localVideo

\* C15: a step that performs an external action (a fetch or a local delete,
\* a cloud eviction, a publish) or ends the invocation starts with every
\* change of the tracking already on disk.
C15_PersistBeforeExternalAction ==
    [][(\/ localVideo' # localVideo
        \/ evictions' # evictions
        \/ published' # published
        \/ pc' = "idle")
          => tracking = file]_vars

\* C16: whatever kill has happened, the records of a tracking file that is
\* whole have parts_uploaded strictly increasing, as long as
\* youtube_video_ids, and made of parts that were really published; and the
\* batch a run plans starts at max(parts_uploaded on disk)+1.
C16_KilledRunResumesCleanly ==
    ~corrupt =>
        /\ \A i \in DOMAIN file :
              /\ StrictlyIncreasing(file[i].parts_uploaded)
              /\ Len(file[i].parts_uploaded) = Len(file[i].youtube_video_ids)
              /\ \A k \in Range(file[i].parts_uploaded) :
                    <<file[i].id, k>> \in ever_published
        /\ pc = "prepare" =>
              parts_to_process[1]
                 = MaxOrZero(Rec(file, video_id).parts_uploaded) + 1

\* C16 witness: a run in which no write failed was killed after it had
\* recorded a part and published one more that the file does not hold.
C16_Witness ==
    /\ pc = "idle"
    /\ ~write_failed
    /\ ~corrupt
    /\ \E p \in published :
          /\ p[2] \notin Range(Rec(file, p[1]).parts_uploaded)
          /\ \E q \in published :
                q[2] \in Range(Rec(file, p[1]).parts_uploaded)

\* C17: once a _save_tracking of an invocation has raised, the invocation
\* publishes no further part.
C17_WriteFailureAbortsRun ==
    [][write_failed => published' \subseteq published]_vars

\* C18: an invocation that starts always gets to its scrape, and on a
\* tracking file that cannot be parsed it starts from the empty store.
C18_CorruptFileLoadsAsEmpty ==
    [][(pc = "idle" /\ runs' # runs)
          => (/\ pc' = "scrape"
              /\ corrupt => tracking' = EmptyTracking)]_vars

\* C19: a record that is completed keeps its status and parts_uploaded in
\* every step, on disk and in memory, is never selected, and no part of it
\* is published.
Frozen(old, new) ==
    \A i \in DOMAIN old :
        old[i].status = "completed"
           => /\ i \in DOMAIN new
              /\ new[i].id = old[i].id
              /\ new[i].status = "completed"
              /\ new[i].parts_uploaded = old[i].parts_uploaded
C19_CompletedIsTerminal ==
    [][/\ Frozen(file, file')
       /\ Frozen(tracking, tracking')
       /\ \A i \in DOMAIN file :
             file[i].status = "completed"
                => /\ ~(pc = "select" /\ pc' = "fetch"
                                      /\ video_id' = file[i].id)
                   /\ \A p \in published' \ published : p[1] # file[i].id]_vars

\* C19 witness: a later invocation publishes a part of one video while the
\* record of another video is completed and holds parts.
C19_Witness ==
    /\ runs >= 2
    /\ \E p \in published : p[1] = video_id
    /\ \E i \in DOMAIN file :
          /\ file[i].status = "completed"
          /\ file[i].id # video_id
          /\ file[i].parts_uploaded # <<>>

\* C20: the invocation ends with the all-videos-complete notification only
\* when no record of the store is pending, partial or download_failed.
C20_NotifyOnlyWhenAllDone ==
    [][(pc = "select" /\ pc' = "idle")
          => \A i \in DOMAIN tracking :
                tracking[i].status
                    \notin {"pending", "partial", "download_failed"}]_vars

\* C21: scrape_channel keeps every tracked record as it is, at its place
\* (of the fields kept here it changes none), removes none, and adds the
\* scraped videos it has not seen, as pending records without progress,
\* whatever the scraper returned; the result is what it saves.
C21_ScrapeKeepsProgress ==
    [][(pc = "scrape" /\ pc' = "sync")
          => (/\ Len(tracking') >= Len(tracking)
              /\ \A i \in DOMAIN tracking : tracking'[i] = tracking[i]
              /\ \A i \in (Len(tracking) + 1)..Len(tracking') :
                    /\ tracking'[i].id \in Range(videos') \ Ids(tracking)
                    /\ tracking'[i].status = "pending"
                    /\ tracking'[i].parts_uploaded = <<>>
                    /\ tracking'[i].youtube_video_ids = <<>>
                    /\ tracking'[i].cloud_url = NoUrl
              /\ Range(videos') \subseteq Ids(tracking')
              /\ file' = tracking')]_vars

\* C21 witness: the scraper has returned fewer videos than are tracked and
\* a tracked record holds progress.
C21_Witness ==
    /\ pc = "sync"
    /\ Len(videos) < Len(tracking)
    /\ \E i \in DOMAIN tracking :
          /\ tracking[i].parts_uploaded # <<>>
          /\ tracking[i].status = "partial"
          /\ tracking[i].id \notin Range(videos)

\* C22: the part count planned for a duration D, a segment length L and a
\* cap C is the smaller of C and floor(D / L) plus one when D mod L is at
\* least 10; it never exceeds C.
C22_PartCountFormula ==
    analysis.planned =>
        LET D == analysis.total_duration
            L == analysis.segment_duration
            C == analysis.max_segments
        IN /\ analysis.total_parts
                 = Min({C, (D \div L) + (IF D % L >= 10 THEN 1 ELSE 0)})
           /\ analysis.total_parts <= C

\* C22 witness: a duration whose remainder is exactly 10 seconds has got
\* the extra part, under the cap.
C22_Witness ==
    /\ analysis.planned
    /\ analysis.total_duration % analysis.segment_duration = 10
    /\ analysis.total_parts
          = (analysis.total_duration \div analysis.segment_duration) + 1
    /\ analysis.total_parts < analysis.max_segments

\* C23: at every point of a run the edited segment file of at most one part
\* is on local disk.
C23_OneSegmentOnDisk == Cardinality(edited_files) <= 1

\* The videos that are not completed and have recorded parts.
InProgress(t) ==
    {t[i].id : i \in {j \in DOMAIN t : /\ t[j].status # "completed"
                                        /\ t[j].parts_uploaded # <<>>}}

\* C24: serial processing: at any time at most one record that is not
\* completed holds recorded parts, in the file and in memory, so that a
\* first publish for a video never comes while another one is unfinished.
C24_SerialProcessing ==
    /\ Cardinality(InProgress(file)) <= 1
    /\ Cardinality(InProgress(tracking)) <= 1

\* C27: while a run processes the batch it has planned from the analysed
\* duration, the record's stored total_parts is the planned part count.
C27_TotalPartsStored ==
    pc \in {"prepare", "upload"}
        => Rec(tracking, video_id).total_parts = total_parts

\* C25: what a notification call does (sends, does not send, raises) has no
\* part in what the run does next: the step that follows the "all videos
\* complete" notification leaves the store as it is, the step that follows
\* the "download failed" notification writes status download_failed on the
\* selected record and saves, and the step of a successful publish records
\* the part and saves, whatever the notifier did.
C25_NotifierHasNoEffect ==
    [][/\ (pc = "select" /\ pc' = "idle")
           => (tracking' = tracking /\ file' = file)
       /\ (pc = "fetch" /\ pc' = "idle")
           => /\ tracking' = SetField(tracking, video_id, "status",
                                      "download_failed")
              /\ file' = tracking'
       /\ (pc = "upload" /\ ever_published' # ever_published)
           => /\ file' = tracking'
              /\ seg_pos' = seg_pos + 1
              /\ pc' = "upload"]_vars

\* A run has ended on a failed download: the record is marked and saved.
C25_Witness ==
    /\ pc = "idle"
    /\ downloader_calls # <<>>
    /\ \E i \in DOMAIN file : file[i].status = "download_failed"
    /\ file = tracking

\* The ids of a record stand for its recorded parts, one by one.
Aligned(r) ==
    /\ Len(r.youtube_video_ids) = Len(r.parts_uploaded)
    /\ \A i \in DOMAIN r.parts_uploaded :
           r.youtube_video_ids[i] = YtId(r.id, r.parts_uploaded[i])

\* C26: in the file and in memory, every record's youtube_video_ids is as
\* long as its parts_uploaded and its i-th id is the reference the publish
\* of the i-th recorded part returned.
C26_IdsAlignedWithParts ==
    /\ \A i \in DOMAIN file : Aligned(file[i])
    /\ \A i \in DOMAIN tracking : Aligned(tracking[i])

\* A record of the file holds two parts or more, published by two runs.
C26_Witness ==
    /\ runs = 2
    /\ published # {}
    /\ \E i \in DOMAIN file :
           /\ Len(file[i].parts_uploaded) >= 2
           /\ \E p \in Range(file[i].parts_uploaded) :
                  <<file[i].id, p>> \notin published

\* C28: when no record is partial, the video the run goes on to fetch is the
\* pending one with the most views, the first of get_pending_videos.
C28_StartsMostViewedPending ==
    [][(/\ pc = "select"
        /\ pc' = "fetch"
        /\ FirstWithStatus(tracking, "partial") = NoVideo)
       => video_id' = Head(get_pending_videos(tracking)).id]_vars

\* The part a run would publish first for the video a call returned.
NextPartOf(call) ==
    IF call.video_id = NoVideo THEN 0
    ELSE NextPart(Rec(call.tracking, call.video_id).parts_uploaded)

LostParts ==
    {e \in ever_published :
        \/ e[1] \notin Ids(file)
        \/ e[2] \notin Range(Rec(file, e[1]).parts_uploaded)}

\* C30: with two invocations on one tracking file, every write of the file
\* leaves it equal to the copy in memory of the invocation that wrote it,
\* whatever the other one had saved before (last write wins).
C30_LastWriteWins ==
    [][file' # file
       => IF second' # second THEN file' = other' ELSE file' = tracking']_vars

\* The second invocation has published and saved a part, the first one has
\* saved after it, and the file no longer records that part.
C30_Witness ==
    /\ other_pc = "done"
    /\ file = tracking
    /\ \E e \in LostParts :
           /\ e[2] \in Range(Rec(other, e[1]).parts_uploaded)
           /\ e \notin published

C32_SegmentBounds ==
    (analysis.planned /\ analysis.segment_duration >= MinTail) =>
        LET D == analysis.total_duration
            L == analysis.segment_duration
            b == analysis.bounds
        IN \A i \in 1..analysis.total_parts :
              /\ b[i].start_time = (i - 1) * L
              /\ b[i].end_time = Min({b[i].start_time + L, D})
              /\ b[i].start_time < b[i].end_time
              /\ b[i].end_time - b[i].start_time >= MinTail
              /\ i < analysis.total_parts
                    => b[i].end_time = b[i + 1].start_time

\* Several parts are planned and the last one is a tail cut at the end of
\* the video.
C32_Witness ==
    /\ analysis.planned
    /\ analysis.segment_duration >= MinTail
    /\ analysis.total_parts >= 2
    /\ LET last == analysis.bounds[analysis.total_parts]
       IN /\ last.end_time = analysis.total_duration
          /\ last.end_time - last.start_time < analysis.segment_duration

\* A record Phase 1 may sync.
NeedsSync(r) == r.status \in {"pending", "partial"} /\ r.cloud_url = NoUrl

C34_OnlySelectedRecordChanges ==
    [][/\ \A i \in DOMAIN file :
             /\ i \in DOMAIN file'
             /\ file'[i].id = file[i].id
             /\ file'[i].extra = file[i].extra
       /\ pc \in {"fetch", "analyze", "cleanup", "prepare", "upload",
                  "final_cleanup"}
             => \A i \in DOMAIN file :
                    file[i].id # video_id => file'[i] = file[i]]_vars

\* An invocation on a file whose records carry a key added by hand has
\* published parts of one video and saved: that record and another one
\* still carry the key.
C34_Witness ==
    /\ pc = "idle"
    /\ runs = 1
    /\ \E i, j \in DOMAIN file :
           /\ i # j
           /\ file[i].parts_uploaded # <<>>
           /\ <<file[i].id, 1>> \in published
           /\ file[i].extra # NoExtra
           /\ file[j].extra # NoExtra

\* C35: the parts_uploaded of every record of the file is 1..k for some k:
\* no part is recorded while a lower one is missing.
C35_PartsArePrefix ==
    \A i \in DOMAIN file :
        file[i].parts_uploaded = Upto(Len(file[i].parts_uploaded))

\* C36: no step publishes a part of a video that an earlier step, of this
\* or of an earlier invocation, has already published.
C36_NoPartPublishedTwice ==
    [][\A e \in published' \ published : e \notin ever_published]_vars

\* C37: a record of the file whose status is completed has at least one
\* recorded part.
C37_CompletedHasParts ==
    \A i \in DOMAIN file :
        file[i].status = "completed" => file[i].parts_uploaded # <<>>

\* The record of v is completed and holds every planned part.
Done(v) ==
    /\ v \in Ids(file)
    /\ Rec(file, v).status = "completed"
    /\ Rec(file, v).parts_uploaded = Upto(PlannedParts(v))

\* C38: with invocations started again and again and no fetch, staging,
\* split, edit or publish failing, every tracked video for which at least
\* one part can be planned is completed in the end, with all its parts
\* 1..total_parts recorded.
C38_EveryVideoCompleted ==
    \A v \in Videos :
        (v \in Ids(file) /\ PlannedParts(v) >= 1) ~> Done(v)

\* A video of more parts than one invocation publishes is completed, all
\* its parts recorded.
C38_Witness ==
    \E v \in Videos :
        /\ PlannedParts(v) > max_uploads_per_run
        /\ Done(v)

\* C39: an invocation of run_full_automation comes to its end, and the
\* calls of run_full_automation nested in it are never more than there are
\* videos in the catalog.
C39_InvocationTerminates ==
    /\ <>(pc = "idle")
    /\ [](depth <= Cardinality(Videos))

\* The invocation has ended after as many nested calls as there are
\* videos, each after a video found complete.
C39_Witness ==
    /\ pc = "idle"
    /\ depth = Cardinality(Videos)
    /\ \A i \in DOMAIN file : file[i].status = "completed"

\* C40: every pass through the loop body of split_video advances
\* start_time or leaves the loop.
C40_SplitLoopAdvances ==
    [][(analysis.at = "while" /\ analysis'.iterations > analysis.iterations)
       => \/ analysis'.start_time > analysis.start_time
          \/ analysis'.at = "return"]_vars

============================================================================
